---- MODULE Spec2Model ----
(***************************************************************************)
(* Model of the gcppubsub wrapper (src/unnamed/part_003) around the Google *)
(* Cloud Pub/Sub client, and of the broker and client library it drives.   *)
(*                                                                         *)
(* The wrapper's own code is translated statement by statement.  The       *)
(* client library (cloud.google.com/go/pubsub) and the broker are not part *)
(* of the repository; they are modelled by their documented contract at    *)
(* the places where the wrapper calls them:                                *)
(*   - Subscription.Receive refuses a second call on the same              *)
(*     *pubsub.Subscription while one is active, reads ReceiveSettings     *)
(*     once when it starts, and with Synchronous = true pulls at most      *)
(*     MaxOutstandingMessages minus the messages still held, ignoring      *)
(*     NumGoroutines; every pulled message gets a callback goroutine of    *)
(*     its own; on cancellation it stops pulling, waits for the running    *)
(*     callbacks and returns nil; on a service error it returns the error. *)
(*   - Message.DeliveryAttempt is nil unless the subscription has a        *)
(*     dead-letter policy.                                                 *)
(*   - the broker redelivers a nacked message, and forwards it to the      *)
(*     dead-letter topic once MaxDeliveryAttempts deliveries were nacked.  *)
(***************************************************************************)
EXTENDS Integers, Sequences, FiniteSets, TLC

(* ------------------------------ bounds -------------------------------- *)

\* Messages the broker holds for the subscription in one run.
MaxMsgs == 2

\* Messages published in the redelivery scenario.
ScenarioMsgs == 3

\* Max delivery attempts of the dead-letter policy of the subscription that
\* was created outside the wrapper.
MaxDeliveryAttempts == 2

\* Close calls made on one client.
MaxCloses == 2

(* ------------------------- program constants -------------------------- *)

\* ReceiveConfig.MaxOutstandingMessages: "If not set, defaults to 1000."
DefaultMaxOutstandingMessages == 1000

\* ReceiveConfig.MaxOutstandingBytes: "If not set, defaults to 1e9 (1GB)."
DefaultMaxOutstandingBytes == 1000000000

\* SubscriptionConfig (seconds): "If not set, defaults to 10 seconds", and
\* the two backoff values CreateSubscription starts from.
DefaultAckDeadline == 10
DefaultMinBackoff == 10
DefaultMaxBackoff == 600

(* ------------------------------ values -------------------------------- *)

NoSub == [kind |-> "none"]
NilCfg == [kind |-> "nil"]
NilAttempt == 0
NoMessage == [kind |-> "none"]

\* Identifiers passed to Topic() and Subscription(); "" is the empty identifier.
TopicIDs == {"orders", "audit"}
SubName == "orders-worker-1"

\* Attribute maps passed to Publish: nil, or one key.
NoAttrs == <<>>
KeyValue == [key |-> "value"]

\* (data, attrs) pairs passed to Publish.
TestPayload == [data |-> "hello", attrs |-> KeyValue]
Payloads == {TestPayload, [data |-> "", attrs |-> NoAttrs]}

\* *ReceiveConfig values passed to Receive (nil, or a struct).
ReceiveConfigs ==
  { NilCfg,
    [kind |-> "cfg", Concurrency |-> 1, MaxOutstandingMessages |-> 2,
     MaxOutstandingBytes |-> 0, EnableMessageOrdering |-> FALSE],
    [kind |-> "cfg", Concurrency |-> 2, MaxOutstandingMessages |-> 1,
     MaxOutstandingBytes |-> 0, EnableMessageOrdering |-> FALSE] }

\* *SubscriptionConfig values passed to CreateSubscription (seconds).
SubscriptionConfigs ==
  { NilCfg,
    [kind |-> "cfg", AckDeadline |-> 30, MinBackoff |-> 10, MaxBackoff |-> 600] }

\* Receive with ordering asked for and two handlers side by side.
OrderedCfg ==
  [kind |-> "cfg", Concurrency |-> 2, MaxOutstandingMessages |-> 0,
   MaxOutstandingBytes |-> 0, EnableMessageOrdering |-> TRUE]

\* What a handler invocation can end with.
Outcomes == {"ok", "err", "panic"}

\* The callers that run CreateSubscription side by side.
Creators == {"a", "b"}

(* ------------------------------ state --------------------------------- *)

VARIABLES
  sub,        \* broker: the subscription named SubName, or NoSub
  msgs,       \* broker: the messages routed to the subscription, by id
  settings,   \* handle: sub.ReceiveSettings of the *pubsub.Subscription
  loop,       \* the Receive call active on the handle, and what the last returned
  ret,        \* what the last call that returned at once returned
  conn,       \* client: the connection behind c.client
  creators,   \* the CreateSubscription calls that run side by side
  lab         \* the libvirt host of the lab script: domains, files, networks

vars == <<sub, msgs, settings, loop, ret, conn, creators, lab>>

MsgIds == 1..Len(msgs)

(* ---------------------- broker (external service) --------------------- *)

\* The subscription that exists before the program runs: created outside the
\* wrapper, with a dead-letter policy, so the broker counts delivery attempts.
ExternalSub ==
  [kind |-> "sub", origin |-> "external", topic |-> "orders",
   ackDeadline |-> 10, retry |-> <<>>, deadLetter |-> TRUE]

\* A message as the broker stores it for the subscription.  st is where the
\* delivery stands: pending at the broker, pulled by the loop, in the handler,
\* acked, or dead (forwarded to the dead-letter topic).  attempt is the
\* delivery attempt the broker supplied with the last delivery.  arg is the
\* Message the running handler invocation was given and out is how the
\* handler invocation of the last delivery ended ("none" until it has).  acks
\* records how often the message was acked.  key is the ordering key; the
\* pubsub.Message Publish builds has none.  calls counts the calls of m.Ack
\* and m.Nack the callback made for the last delivery.  id is the identifier the broker
\* assigns: the next one it has not used for the subscription.
NewMessage(p) ==
  [id |-> Len(msgs) + 1, data |-> p.data, attrs |-> p.attrs, key |-> "",
   st |-> "pending",
   attempt |-> NilAttempt, arg |-> NoMessage, out |-> "none", acks |-> 0,
   calls |-> 0]

\* Ordering keys of the messages another publisher sends to the topic.
OrderingKeys == {"k1", "k2"}

\* Another publisher sends a message with ordering key k to "orders".
ExternalPublish(k) ==
  /\ sub # NoSub /\ sub.topic = "orders"
  /\ msgs' = Append(msgs, [NewMessage(TestPayload) EXCEPT !.key = k])
  /\ UNCHANGED <<lab, conn, creators, sub, settings, loop, ret>>

\* The broker hands a message out: with a dead-letter policy it counts the
\* delivery, without one it supplies no delivery attempt.
BrokerDeliver(m) ==
  [m EXCEPT !.st = "pulled", !.out = "none", !.calls = 0,
            !.attempt = IF sub.deadLetter THEN @ + 1 ELSE NilAttempt]

\* m.Ack(): the broker drops the message.
BrokerAck(m) == [m EXCEPT !.st = "acked", !.acks = @ + 1]

\* m.Nack(): the broker redelivers, or dead-letters after the last attempt.
BrokerNack(m) ==
  [m EXCEPT !.st = IF sub.deadLetter /\ m.attempt >= MaxDeliveryAttempts
                   THEN "dead" ELSE "pending"]

Held(st) == {i \in MsgIds : msgs[i].st = st}

\* The size the flow control counts for a message: the length of its Data.
Size(m) == Len(m.data)

RECURSIVE Bytes(_)
\* The sizes of the messages of S together.
Bytes(S) ==
  IF S = {} THEN 0
  ELSE LET i == CHOOSE j \in S : TRUE IN Size(msgs[i]) + Bytes(S \ {i})

(* ------------------- lab script (kvm_lab_2vms_3nics.sh) ---------------- *)

\* Runs of the script on one host.
MaxRuns == 3

\* --prefix values; "" is the option left out.
Prefixes == {"mi-test-vm-", "yo-test-vm-"}

\* --netA and --netB values: "192.168.<oct3>.0/<pfx>".
NetACidrs ==
  { [oct3 |-> 58, pfx |-> 24], [oct3 |-> 60, pfx |-> 24],
    [oct3 |-> 58, pfx |-> 16] }
NetBCidr == [oct3 |-> 59, pfx |-> 24]

\* --nat-net values: the default, or the network the script makes itself.
NatNets == {"default", "nat0"}

\* --ip1 values: a host octet (--ip2 is "199").
HostOctets == {197, 255}

\* The domains and networks the host can have.
VMNames == {p \o i : p \in Prefixes, i \in {"1", "2"}}
NetNames == {"default", "nat0", "net58", "net59", "net60"}

\* The options of one run; the ones cleanup does not read have their
\* defaults in its runs.
CreateArgs ==
  [action : {"create"}, prefix : Prefixes \cup {""}, netA : NetACidrs,
   netB : {NetBCidr}, natNet : NatNets, ip1 : HostOctets, force : BOOLEAN]
CleanupArgs ==
  [action : {"cleanup"}, prefix : Prefixes \cup {""}, netA : NetACidrs,
   netB : {NetBCidr}, natNet : {"default"}, ip1 : {0}, force : {FALSE}]

\* No run of the script yet.
NoRun ==
  [args |-> [action |-> "none", prefix |-> "", netA |-> NetBCidr,
             netB |-> NetBCidr, natNet |-> "default", ip1 |-> 0,
             force |-> FALSE],
   exit |-> 0]

\* A host with no lab on it; defaultNet is the state of libvirt's 'default'
\* network ("absent", "inactive" or "active").  A domain, disk or seed is 0
\* when it does not exist, and else the run of the script that made it.
Host(defaultNet) ==
  [runs |-> 0,
   last |-> NoRun,
   nets |-> [n \in NetNames |-> IF n = "default" THEN defaultNet ELSE "absent"],
   doms |-> [v \in VMNames |-> 0],
   disks |-> [v \in VMNames |-> 0],
   seeds |-> [v \in VMNames |-> 0]]

\* NETA_NAME, NETB_NAME: "net" and the third octet of the CIDR.
NetName(cidr) == "net" \o ToString(cidr.oct3)

\* VM1 and VM2.
VM1(a) == a.prefix \o "1"
VM2(a) == a.prefix \o "2"

\* The checks that end the script with exit 1 before it changes anything:
\* required options, create's host octets, /24.
ArgsOk(a) ==
  /\ a.prefix # ""
  /\ a.netA.pfx = 24 /\ a.netB.pfx = 24
  /\ a.action = "create" => (a.ip1 >= 2 /\ a.ip1 <= 254)

\* cleanup_vm_files.
CleanupVmFiles(l, vm) ==
  [l EXCEPT !.disks[vm] = 0, !.seeds[vm] = 0]

\* virsh destroy and virsh undefine of a domain.
Undefine(l, vm) == [l EXCEPT !.doms[vm] = 0]

\* Mutant: cleanup removes the NAT networks as well.
CleanupNetsWithNat(a) == {NetName(a.netA), NetName(a.netB), "default", "nat0"}

\* The networks cleanup destroys and undefines.
CleanupNets(a) == {NetName(a.netA), NetName(a.netB)}

\* The cleanup branch.
CleanupRun(l, a) ==
  LET l1 == CleanupVmFiles(CleanupVmFiles(Undefine(Undefine(l, VM1(a)), VM2(a)),
                                          VM1(a)), VM2(a))
  IN [l1 EXCEPT !.nets = [n \in NetNames |->
                            IF n \in CleanupNets(a) THEN "absent" ELSE l.nets[n]]]

\* define_net_if_missing: define when missing, start when not active.
DefineNetIfMissing(nets, name) == [nets EXCEPT ![name] = "active"]

\* "Ensure NAT network exists/active. If missing, create nat0."
EnsureNat(nets, natNet) ==
  IF nets[natNet] # "absent"
  THEN [nets EXCEPT ![natNet] = "active"]
  ELSE DefineNetIfMissing(nets, "nat0")

\* mk_overlay in run r: an existing disk is kept.
MkOverlay(l, vm, r) ==
  IF l.disks[vm] # 0 THEN l ELSE [l EXCEPT !.disks[vm] = r]

\* mk_seed in run r: the seed files are written anew.
MkSeed(l, vm, r) == [l EXCEPT !.seeds[vm] = r]

\* virt-install in run r.
Install(l, vm, r) == [l EXCEPT !.doms[vm] = r]

\* Mutant: an existing domain is recreated without --force too.
MkVmAlwaysRecreates(l, vm, force, r) ==
  IF l.doms[vm] # 0
  THEN Install(MkSeed(MkOverlay(CleanupVmFiles(Undefine(l, vm), vm), vm, r), vm, r),
               vm, r)
  ELSE Install(l, vm, r)

\* mk_vm in run r.
MkVm(l, vm, force, r) ==
  IF l.doms[vm] # 0
  THEN IF force
       THEN Install(MkSeed(MkOverlay(CleanupVmFiles(Undefine(l, vm), vm), vm, r),
                           vm, r), vm, r)
       ELSE l
  ELSE Install(l, vm, r)

\* The create branch, in run r.
CreateRun(l, a, r) ==
  LET nets == DefineNetIfMissing(
                DefineNetIfMissing(EnsureNat(l.nets, a.natNet), NetName(a.netA)),
                NetName(a.netB))
      l1 == [l EXCEPT !.nets = nets]
      l2 == MkOverlay(MkOverlay(l1, VM1(a), r), VM2(a), r)
      l3 == MkSeed(MkSeed(l2, VM1(a), r), VM2(a), r)
  IN MkVm(MkVm(l3, VM1(a), a.force, r), VM2(a), a.force, r)

\* One run of the script with "cleanup".  The virsh and file commands of
\* the script are taken to succeed.
LabCleanup(a) ==
  /\ a.action = "cleanup"
  /\ lab.runs < MaxRuns
  /\ lab' = IF ArgsOk(a)
            THEN [CleanupRun(lab, a) EXCEPT !.runs = lab.runs + 1,
                                            !.last = [args |-> a, exit |-> 0]]
            ELSE [lab EXCEPT !.runs = lab.runs + 1,
                             !.last = [args |-> a, exit |-> 1]]
  /\ UNCHANGED <<sub, msgs, settings, loop, ret, conn, creators>>

\* One run of the script with "create".
LabCreate(a) ==
  /\ a.action = "create"
  /\ lab.runs < MaxRuns
  /\ lab' = IF ArgsOk(a)
            THEN [CreateRun(lab, a, lab.runs + 1)
                    EXCEPT !.runs = lab.runs + 1,
                           !.last = [args |-> a, exit |-> 0]]
            ELSE [lab EXCEPT !.runs = lab.runs + 1,
                             !.last = [args |-> a, exit |-> 1]]
  /\ UNCHANGED <<sub, msgs, settings, loop, ret, conn, creators>>

(* --------------------------- client connection ------------------------- *)

\* NewPubSubClient: the connection is open; closes counts the calls of
\* c.client.Close().
OpenConn == [closed |-> FALSE, closes |-> 0]

\* What a call returns when a broker call of it failed: on a closed
\* connection the library's error is the cause the wrapper's error wraps.
Failure(op, err) ==
  IF conn.closed
  THEN [op |-> op, err |-> err, cause |-> "closed"]
  ELSE [op |-> op, err |-> err]

\* An Ack or Nack on a closed connection does not reach the broker.
Sent(how) == IF conn.closed THEN "lost" ELSE how

\* No CreateSubscription call has started.
NoCreators == [c \in Creators |-> [pc |-> "idle"]]

(* --------------------------- PubSubClient.Close ------------------------ *)

\* Close(): c.client is set by NewPubSubClient and never cleared, so every
\* call reaches c.client.Close().  again is what the library returns for a
\* connection that was closed before.
Close(again) ==
  /\ conn.closes < MaxCloses
  /\ conn' = [closed |-> TRUE, closes |-> conn.closes + 1]
  /\ ret' = [op |-> "Close", err |-> IF conn.closed THEN again ELSE "nil"]
  /\ UNCHANGED <<lab, creators, sub, msgs, settings, loop>>

(* -------------------------- Exists, Delete, List ----------------------- *)

\* Topic.Exists on the handle Topic(topicID): topic.Config fails when ok is
\* false; the topics of TopicIDs exist at the broker.
TopicExists(topicID, ok) ==
  /\ ret' = IF topicID = ""
            THEN [op |-> "Topic.Exists", val |-> FALSE, err |-> "nil"]
            ELSE IF conn.closed
            THEN [op |-> "Topic.Exists", val |-> FALSE, err |-> "config failed",
                  cause |-> "closed"]
            ELSE IF ~ok
            THEN [op |-> "Topic.Exists", val |-> FALSE, err |-> "config failed"]
            ELSE [op |-> "Topic.Exists", val |-> TRUE, err |-> "nil"]
  /\ UNCHANGED <<lab, conn, creators, sub, msgs, settings, loop>>

\* Subscription.Exists on the handle Subscription(subID): sub.Config fails
\* when ok is false or the subscription does not exist.
SubExists(subID, ok) ==
  /\ ret' = IF subID = ""
            THEN [op |-> "Subscription.Exists", val |-> FALSE, err |-> "nil"]
            ELSE IF conn.closed
            THEN [op |-> "Subscription.Exists", val |-> FALSE,
                  err |-> "config failed", cause |-> "closed"]
            ELSE IF ~ok \/ sub = NoSub
            THEN [op |-> "Subscription.Exists", val |-> FALSE,
                  err |-> "config failed"]
            ELSE [op |-> "Subscription.Exists", val |-> TRUE, err |-> "nil"]
  /\ UNCHANGED <<lab, conn, creators, sub, msgs, settings, loop>>

\* Subscription.Delete on the handle Subscription(subID): the broker drops
\* the subscription and the messages it holds for it.
Delete(subID, ok) ==
  /\ IF subID = ""
     THEN /\ ret' = [op |-> "Delete", err |-> "invalid subscription"]
          /\ UNCHANGED <<sub, msgs>>
     ELSE IF ~ok \/ conn.closed \/ sub = NoSub
     THEN /\ ret' = Failure("Delete", "delete failed")
          /\ UNCHANGED <<sub, msgs>>
     ELSE /\ ret' = [op |-> "Delete", err |-> "nil"]
          /\ sub' = NoSub
          /\ msgs' = <<>>
  /\ UNCHANGED <<lab, conn, creators, settings, loop>>

\* The identifiers the broker's pagination returns, in its order.
BrokerTopics == <<"audit", "orders">>
BrokerSubs == IF sub = NoSub THEN <<>> ELSE <<SubName>>

\* failAt of an iterator that never fails: it.Next returns iterator.Done
\* after the last identifier.
NeverFails == -1

\* The number of identifiers it.Next yields before its error: none on a
\* closed connection.
FailsAt(failAt) == IF conn.closed THEN 0 ELSE failAt

RECURSIVE Collect(_, _, _)
\* The loop of ListSubscriptions and ListTopics over the iterator of ids,
\* with acc the slice appended to so far: iterator.Done ends it with the
\* slice, an error ends it with nil (the empty sequence).  seen records what
\* it.Next had yielded.
Collect(ids, failAt, acc) ==
  IF Len(acc) = failAt THEN [val |-> <<>>, err |-> "failed", seen |-> acc]
  ELSE IF Len(acc) = Len(ids) THEN [val |-> acc, err |-> "nil", seen |-> acc]
  ELSE Collect(ids, failAt, Append(acc, ids[Len(acc) + 1]))

\* What a List call returns for the outcome r of its loop.
ListReturn(op, msg, r) ==
  IF r.err = "nil"
  THEN [op |-> op, err |-> "nil", val |-> r.val, seen |-> r.seen]
  ELSE [val |-> r.val, seen |-> r.seen] @@ Failure(op, msg)

\* ListSubscriptions: the identifiers the iterator yields, or its error.
ListSubscriptions(failAt) ==
  /\ ret' = ListReturn("ListSubscriptions", "failed to list subscriptions",
                       Collect(BrokerSubs, FailsAt(failAt), <<>>))
  /\ UNCHANGED <<lab, conn, creators, sub, msgs, settings, loop>>

\* ListTopics: the identifiers the iterator yields, or its error.
ListTopics(failAt) ==
  /\ ret' = ListReturn("ListTopics", "failed to list topics",
                       Collect(BrokerTopics, FailsAt(failAt), <<>>))
  /\ UNCHANGED <<lab, conn, creators, sub, msgs, settings, loop>>

(* ----------------------------- Topic.Publish --------------------------- *)

\* Mutant: the error of result.Get is dropped.
PublishIgnoresErr(topicID, p, ok) ==
  /\ IF topicID = ""
     THEN /\ ret' = [op |-> "Publish", err |-> "invalid topic"]
          /\ msgs' = msgs
     ELSE /\ ret' = [op |-> "Publish", err |-> "nil"]
          /\ IF ok /\ ~conn.closed /\ sub # NoSub /\ sub.topic = topicID
             THEN msgs' = Append(msgs, NewMessage(p))
             ELSE msgs' = msgs
  /\ UNCHANGED <<lab, conn, creators, sub, settings, loop>>

\* Topic.Publish on the handle Topic(topicID); ok is whether the broker
\* accepts the message.  On a closed connection result.Get returns an error.
Publish(topicID, p, ok) ==
  /\ IF topicID = ""
     THEN /\ ret' = [op |-> "Publish", err |-> "invalid topic"]
          /\ msgs' = msgs
     ELSE IF ~ok \/ conn.closed
     THEN /\ ret' = Failure("Publish", "failed to publish message")
          /\ msgs' = msgs
     ELSE /\ ret' = [op |-> "Publish", err |-> "nil"]
          /\ IF sub # NoSub /\ sub.topic = topicID
             THEN msgs' = Append(msgs, NewMessage(p))
             ELSE msgs' = msgs
  /\ UNCHANGED <<lab, conn, creators, sub, settings, loop>>

(* ---------------------- PubSubClient.CreateSubscription ---------------- *)

\* The pubsub.SubscriptionConfig the wrapper builds from cfg.
SubConfig(topicID, cfg) ==
  [kind |-> "sub", origin |-> "wrapper", topic |-> topicID,
   ackDeadline |-> IF cfg # NilCfg /\ cfg.AckDeadline > 0
                   THEN cfg.AckDeadline ELSE 0,
   retry |-> IF cfg # NilCfg /\ (cfg.MinBackoff > 0 \/ cfg.MaxBackoff > 0)
             THEN << IF cfg.MinBackoff > 0 THEN cfg.MinBackoff ELSE DefaultMinBackoff,
                     IF cfg.MaxBackoff > 0 THEN cfg.MaxBackoff ELSE DefaultMaxBackoff >>
             ELSE <<>>,
   deadLetter |-> FALSE]

\* Mutant: the result of the existence check is not looked at.
CreateSubscriptionErrNoCheck(subID, topic, fault) ==
  IF subID = "" THEN "subscription ID cannot be empty"
  ELSE IF topic \in {"nil", ""} THEN "topic cannot be nil"
  ELSE IF fault = "exists" \/ conn.closed
       THEN "failed to check subscription existence"
  ELSE IF fault = "create" THEN "failed to create subscription"
  ELSE "nil"

\* Mutant: the arguments are validated after the existence check.
CreateSubscriptionErrCheckFirst(subID, topic, fault) ==
  IF fault = "exists" \/ conn.closed
       THEN "failed to check subscription existence"
  ELSE IF sub # NoSub THEN "ErrSubscriptionExists"
  ELSE IF subID = "" THEN "subscription ID cannot be empty"
  ELSE IF topic \in {"nil", ""} THEN "topic cannot be nil"
  ELSE IF fault = "create" THEN "failed to create subscription"
  ELSE "nil"

\* The error CreateSubscription returns; fault is the broker call that fails
\* ("none", "exists" for sub.Exists, "create" for client.CreateSubscription).
CreateSubscriptionErr(subID, topic, fault) ==
  IF subID = "" THEN "subscription ID cannot be empty"
  ELSE IF topic \in {"nil", ""} THEN "topic cannot be nil"
  ELSE IF fault = "exists" \/ conn.closed
       THEN "failed to check subscription existence"
  ELSE IF sub # NoSub THEN "ErrSubscriptionExists"
  ELSE IF fault = "create" THEN "failed to create subscription"
  ELSE "nil"

\* topic is "nil" (no handle), "" (the handle of Topic("")) or a topic ID.
CreateSubscription(subID, topic, cfg, fault) ==
  /\ LET err == CreateSubscriptionErr(subID, topic, fault) IN
       ret' = IF err \in {"failed to check subscription existence",
                          "failed to create subscription"}
              THEN Failure("CreateSubscription", err)
              ELSE [op |-> "CreateSubscription", err |-> err]
  /\ sub' = IF ret'.err = "nil" THEN SubConfig(topic, cfg) ELSE sub
  /\ UNCHANGED <<lab, conn, creators, msgs, settings, loop>>

\* CreateSubscription as the steps that callers running side by side
\* interleave: the call up to and including sub.Exists, then the call of
\* c.client.CreateSubscription and the return.  The broker answers each of
\* its calls at once; it refuses to create a subscription that exists.

\* Caller c validates its arguments and checks existence.
CreateCheck(c, topic, cfg, fault) ==
  /\ creators[c].pc = "idle"
  /\ LET err == IF fault = "exists" \/ conn.closed
                THEN "failed to check subscription existence"
                ELSE IF sub # NoSub THEN "ErrSubscriptionExists"
                ELSE "nil"
     IN creators' = [creators EXCEPT ![c] =
          [pc |-> IF err = "nil" THEN "checked" ELSE "done",
           topic |-> topic, cfg |-> cfg, err |-> err, cause |-> "none"]]
  /\ UNCHANGED <<lab, conn, sub, msgs, settings, loop, ret>>

\* What the broker answers to c.client.CreateSubscription.
BrokerCreateErr(fault) ==
  IF fault = "create" \/ conn.closed THEN "unavailable"
  ELSE IF sub # NoSub THEN "already exists"
  ELSE "nil"

\* Mutant: the error of c.client.CreateSubscription is not looked at.
CreateReturnIgnoresErr(brokerErr) == "nil"

\* What the call returns after c.client.CreateSubscription.
CreateReturn(brokerErr) ==
  IF brokerErr # "nil" THEN "failed to create subscription" ELSE "nil"

\* Caller c, having found no subscription, creates it and returns.
CreateCreate(c, fault) ==
  /\ creators[c].pc = "checked"
  /\ LET brokerErr == BrokerCreateErr(fault) IN
       /\ sub' = IF brokerErr = "nil"
                 THEN SubConfig(creators[c].topic, creators[c].cfg) ELSE sub
       /\ creators' = [creators EXCEPT ![c] =
             [@ EXCEPT !.pc = "done", !.err = CreateReturn(brokerErr),
                       !.cause = brokerErr]]
  /\ UNCHANGED <<lab, conn, msgs, settings, loop, ret>>

(* --------------------------- Subscription.Receive ---------------------- *)

\* cfg as Receive uses it: a nil cfg becomes the zero ReceiveConfig.
OrZero(cfg) ==
  IF cfg = NilCfg
  THEN [kind |-> "cfg", Concurrency |-> 0, MaxOutstandingMessages |-> 0,
        MaxOutstandingBytes |-> 0, EnableMessageOrdering |-> FALSE]
  ELSE cfg

\* "Apply configuration": the assignments to sub.ReceiveSettings.  A field of
\* cfg that is not positive leaves the handle's setting as it was.
ApplyNumGoroutines(s, cfg) ==
  IF OrZero(cfg).Concurrency > 0 THEN OrZero(cfg).Concurrency ELSE s.NumGoroutines

\* Mutant: the limit of cfg is not written to the settings.
KeepMaxOutstandingMessages(s, cfg) == s.MaxOutstandingMessages

ApplyMaxOutstandingMessages(s, cfg) ==
  IF OrZero(cfg).MaxOutstandingMessages > 0
  THEN OrZero(cfg).MaxOutstandingMessages ELSE s.MaxOutstandingMessages

ApplyMaxOutstandingBytes(s, cfg) ==
  IF OrZero(cfg).MaxOutstandingBytes > 0
  THEN OrZero(cfg).MaxOutstandingBytes ELSE s.MaxOutstandingBytes

ApplyConfig(s, cfg) ==
  [Synchronous |-> TRUE,
   NumGoroutines |-> ApplyNumGoroutines(s, cfg),
   MaxOutstandingMessages |-> ApplyMaxOutstandingMessages(s, cfg),
   MaxOutstandingBytes |-> ApplyMaxOutstandingBytes(s, cfg)]

\* The library's limit on messages held by one Receive call: the setting, or
\* its default when the setting is zero.
MaxCount(s) ==
  IF s.MaxOutstandingMessages = 0
  THEN DefaultMaxOutstandingMessages ELSE s.MaxOutstandingMessages

\* The library's limit on the bytes held by one Receive call: the setting, or
\* its default when the setting is zero.
MaxBytes(s) ==
  IF s.MaxOutstandingBytes = 0
  THEN DefaultMaxOutstandingBytes ELSE s.MaxOutstandingBytes

\* The handle with no Receive call active; err is what the last call that ran
\* a loop returned ("none" before the first).
IdleLoop(err) ==
  [state |-> "Idle", cfg |-> NilCfg, maxCount |-> 0, maxBytes |-> 0,
   cancelled |-> FALSE, err |-> err]

\* Mutant: the active call takes over the settings the second call wrote.
ReceiveInProgressRereads(l) == [l EXCEPT !.maxCount = MaxCount(settings')]

\* sub.Receive on a handle with a Receive call already active: the library
\* returns its "Receive already in progress" error and starts nothing.
ReceiveInProgress(l) == l

\* Mutant: the handle is not checked for nil.
ReceiveUnchecked(subID, cfg) ==
  /\ settings' = ApplyConfig(settings, cfg)
  /\ loop' = [state |-> "Running", cfg |-> OrZero(cfg),
              maxCount |-> MaxCount(settings'),
              maxBytes |-> MaxBytes(settings'), cancelled |-> FALSE,
              err |-> "none"]
  /\ UNCHANGED <<lab, conn, creators, sub, msgs, ret>>

\* Receive(ctx, handler, cfg) on the handle Subscription(subID).  The settings
\* are written before sub.Receive is called; sub.Receive copies them and
\* starts pulling, unless a call is already active on the handle.  On a
\* closed connection the first pull fails and the call returns its error.
Receive(subID, cfg) ==
  IF subID = ""
  THEN /\ ret' = [op |-> "Receive", err |-> "invalid subscription"]
       /\ UNCHANGED <<lab, conn, creators, sub, msgs, settings, loop>>
  ELSE /\ settings' = ApplyConfig(settings, cfg)
       /\ IF loop.state # "Idle"
          THEN /\ loop' = ReceiveInProgress(loop)
               /\ ret' = [op |-> "Receive", err |-> "receive in progress"]
          ELSE IF conn.closed
          THEN /\ loop' = loop
               /\ ret' = Failure("Receive", "receive failed")
          ELSE /\ loop' = [state |-> "Running", cfg |-> OrZero(cfg),
                           maxCount |-> MaxCount(settings'),
                           maxBytes |-> MaxBytes(settings'),
                           cancelled |-> FALSE, err |-> "none"]
               /\ ret' = ret
       /\ UNCHANGED <<lab, conn, creators, sub, msgs>>

\* The caller cancels the context it passed to Receive.
Cancel ==
  /\ loop.state = "Running"
  /\ ~loop.cancelled
  /\ loop' = [loop EXCEPT !.cancelled = TRUE]
  /\ UNCHANGED <<lab, conn, creators, sub, msgs, settings, ret>>

\* How many messages the next synchronous pull may fetch: the limit minus
\* the messages whose callback has not returned.
MaxToPull == loop.maxCount - Cardinality(Held("handler"))

\* Mutant: the flow control does not count bytes.
FitsBytesAlways(S) == TRUE

\* The flow control admits the messages of S next to those whose callback
\* has not returned: together they stay within the byte limit.
FitsBytes(S) == Bytes(Held("handler")) + Bytes(S) <= loop.maxBytes

\* One pull: the broker hands out some of the pending messages, as many as
\* the flow control admits.
Pull(S) ==
  /\ loop.state = "Running"
  /\ sub # NoSub
  /\ ~conn.closed
  /\ Held("pulled") = {}
  /\ S # {}
  /\ S \subseteq Held("pending")
  /\ Cardinality(S) <= MaxToPull
  /\ FitsBytes(S)
  /\ msgs' = [i \in MsgIds |-> IF i \in S THEN BrokerDeliver(msgs[i]) ELSE msgs[i]]
  /\ UNCHANGED <<lab, conn, creators, sub, settings, loop, ret>>

\* Mutant: a nil m.DeliveryAttempt is read as zero.
BuildMessageNilAsZero(m) ==
  [ID |-> m.id, Data |-> m.data, Attributes |-> m.attrs,
   DeliveryAttempt |-> m.attempt]

\* The Message the callback builds from the broker's message, or NoMessage
\* when dereferencing m.DeliveryAttempt panics.
BuildMessage(m) ==
  IF m.attempt = NilAttempt
  THEN NoMessage
  ELSE [ID |-> m.id, Data |-> m.data, Attributes |-> m.attrs,
        DeliveryAttempt |-> m.attempt]

\* Mutant: Ack and Nack swapped.
ResolutionSwapped(outcome) ==
  CASE outcome = "ok" -> "nack"
    [] outcome = "err" -> "ack"
    [] outcome = "panic" -> "nack"

\* Mutant: no deferred recover around the handler.
ResolutionNoRecover(outcome) ==
  CASE outcome = "ok" -> "ack"
    [] outcome = "err" -> "nack"
    [] outcome = "panic" -> "crash"

\* What the callback does with the message for each way the handler ends:
\* nil is acked, an error is nacked, a panic is recovered and nacked.
Resolution(outcome) ==
  CASE outcome = "ok" -> "ack"
    [] outcome = "err" -> "nack"
    [] outcome = "panic" -> "nack"

\* Mutant: the deferred function nacks whether or not it recovered a panic.
CallbackCallsNackAlways(path) ==
  (CASE path = "ok" -> <<"Ack">>
     [] path = "err" -> <<"Nack">>
     [] OTHER -> <<>>) \o <<"Nack">>

\* The calls of m.Ack and m.Nack one run of the callback makes, in order: by
\* its body, then by the deferred function, which nacks when it recovered a
\* panic.  path is how the run goes: the handler returns nil ("ok"), returns
\* an error ("err"), panics ("panic"), or building the Message panics
\* ("build").
CallbackCalls(path) ==
  (CASE path = "ok" -> <<"Ack">>
     [] path = "err" -> <<"Nack">>
     [] OTHER -> <<>>)
  \o (IF path \in {"panic", "build"} THEN <<"Nack">> ELSE <<>>)

\* "lost": the broker hears nothing and hands the message out again when
\* its ack deadline has passed.
Resolve(m, how) ==
  CASE how = "ack" -> BrokerAck(m)
    [] how = "nack" -> BrokerNack(m)
    [] how = "lost" -> [m EXCEPT !.st = "pending"]
    [] OTHER -> m

\* Mutant: a message that is not acked ends the loop.
AfterCallbackFailsLoop(l, how) ==
  IF how = "ack" THEN l ELSE [l EXCEPT !.state = "Failing"]

\* A panic that leaves the callback's goroutine ends the process.
AfterCallback(l, how) ==
  IF how \in {"ack", "nack"} THEN l ELSE [l EXCEPT !.state = "Crashed"]

\* The callback starts on a pulled message.  Building the Message panics when
\* the broker supplied no delivery attempt: the deferred recover nacks and the
\* handler is not called.  Otherwise the handler is called with the Message.
Dispatch(i) ==
  /\ loop.state = "Running"
  /\ i \in Held("pulled")
  /\ LET built == BuildMessage(msgs[i]) IN
     IF built = NoMessage
     THEN /\ msgs' = [msgs EXCEPT ![i] =
                         Resolve([@ EXCEPT !.calls = @ + Len(CallbackCalls("build"))],
                                 Sent(Resolution("panic")))]
          /\ loop' = AfterCallback(loop, Resolution("panic"))
     ELSE /\ msgs' = [msgs EXCEPT ![i] = [@ EXCEPT !.st = "handler", !.arg = built]]
          /\ loop' = loop
  /\ UNCHANGED <<lab, conn, creators, sub, settings, ret>>

\* The handler ends as outcome says (it returns nil, returns an error or
\* panics) and the callback resolves the message.
HandlerReturn(i, outcome) ==
  /\ loop.state \in {"Running", "Stopping", "Failing"}
  /\ i \in Held("handler")
  /\ msgs' = [msgs EXCEPT ![i] =
                Resolve([@ EXCEPT !.arg = NoMessage, !.out = outcome,
                                  !.calls = @ + Len(CallbackCalls(outcome))],
                        Sent(Resolution(outcome)))]
  /\ loop' = AfterCallback(loop, Resolution(outcome))
  /\ UNCHANGED <<lab, conn, creators, sub, settings, ret>>

\* Messages pulled but not yet given to a callback are nacked when the loop
\* stops pulling.
NackPulled ==
  [i \in MsgIds |->
     IF msgs[i].st = "pulled" THEN Resolve(msgs[i], Sent("nack")) ELSE msgs[i]]

\* The pulling goroutine sees the cancelled context: no further pull.
ObserveCancel ==
  /\ loop.state = "Running"
  /\ loop.cancelled
  /\ loop' = [loop EXCEPT !.state = "Stopping"]
  /\ msgs' = NackPulled
  /\ UNCHANGED <<lab, conn, creators, sub, settings, ret>>

\* A pull fails with an error the library does not retry (connection lost,
\* subscription not found).
PullFails ==
  /\ loop.state = "Running"
  /\ Held("pulled") = {}
  /\ loop' = [loop EXCEPT !.state = "Failing"]
  /\ UNCHANGED <<lab, conn, creators, sub, msgs, settings, ret>>

\* A pull on the closed connection fails: the library's error ends the loop.
PullOnClosed ==
  /\ loop.state = "Running"
  /\ conn.closed
  /\ Held("pulled") = {}
  /\ loop' = [loop EXCEPT !.state = "Failing"]
  /\ UNCHANGED <<lab, conn, creators, sub, msgs, settings, ret>>

\* Mutant: the call returns as soon as the loop stopped pulling.
DrainedAtOnce(l) == l.state \in {"Stopping", "Failing"}

\* When sub.Receive may return: the loop stopped pulling and no callback runs.
Drained(l) == l.state \in {"Stopping", "Failing"} /\ Held("handler") = {}

\* Mutant: the context's error is returned after cancellation.
ReceiveErrCtx(l) == IF l.state = "Stopping" THEN "context canceled" ELSE "receive failed"

\* What Receive returns: nil after cancellation, the error otherwise.
ReceiveErr(l) == IF l.state = "Stopping" THEN "nil" ELSE "receive failed"

ReceiveReturn ==
  /\ Drained(loop)
  /\ loop' = IdleLoop(ReceiveErr(loop))
  /\ UNCHANGED <<lab, conn, creators, sub, msgs, settings, ret>>

(* ---------------------------- specification ---------------------------- *)

ClientInit ==
  /\ msgs = <<>>
  /\ settings = [Synchronous |-> FALSE, NumGoroutines |-> 0,
                 MaxOutstandingMessages |-> 0, MaxOutstandingBytes |-> 0]
  /\ loop = IdleLoop("none")
  /\ ret = [op |-> "none", err |-> "nil"]
  /\ conn = OpenConn
  /\ creators = NoCreators

Init ==
  /\ sub \in {NoSub, ExternalSub}
  /\ ClientInit
  /\ lab = Host("active")

\* The host before the first run: libvirt's 'default' network may be
\* missing, stopped or running.
LabInit ==
  /\ sub = NoSub
  /\ ClientInit
  /\ lab \in {Host(d) : d \in {"absent", "inactive", "active"}}

LabNext ==
  \/ \E a \in CleanupArgs : LabCleanup(a)
  \/ \E a \in CreateArgs : LabCreate(a)

LabSpec == LabInit /\ [][LabNext]_vars

\* The receive loop under every call the program's callers make with valid
\* arguments: the subscription is the external one or is created by the
\* wrapper, messages are published to either topic, Receive is called with
\* each configuration, also while a call is active.
Next ==
  \/ \E t \in TopicIDs : Len(msgs) < MaxMsgs /\ Publish(t, TestPayload, TRUE)
  \/ \E cfg \in SubscriptionConfigs :
       sub = NoSub /\ CreateSubscription(SubName, "orders", cfg, "none")
  \/ \E cfg \in ReceiveConfigs : Receive(SubName, cfg)
  \/ Cancel
  \/ \E S \in SUBSET MsgIds : Pull(S)
  \/ \E i \in MsgIds : Dispatch(i)
  \/ \E i \in MsgIds, o \in Outcomes : HandlerReturn(i, o)
  \/ ObserveCancel
  \/ PullFails
  \/ ReceiveReturn

Spec == Init /\ [][Next]_vars

\* The program starts with the external subscription in place.
ExternalInit == Init /\ sub = ExternalSub

\* Scheduling: the broker hands out a message that keeps being pending, a
\* started goroutine (callback, handler, the pulling goroutine that sees the
\* cancelled context, the returning call) takes its next step.  Publishing,
\* calling Receive, cancelling and broker failures are up to the environment.
Fairness ==
  /\ \A i \in 1..MaxMsgs :
       /\ SF_vars(\E S \in SUBSET MsgIds : i \in S /\ Pull(S))
       /\ WF_vars(Dispatch(i))
       /\ WF_vars(\E o \in Outcomes : HandlerReturn(i, o))
  /\ WF_vars(ObserveCancel)
  /\ WF_vars(ReceiveReturn)

FairSpec == Spec /\ Fairness

\* Receive with EnableMessageOrdering on the subscription that exists, while
\* another publisher sends messages with ordering keys.  The wrapper sets
\* Synchronous, and the library then hands every pulled message to a callback
\* goroutine of its own, whatever its key.
OrderNext ==
  \/ \E k \in OrderingKeys : Len(msgs) < MaxMsgs /\ ExternalPublish(k)
  \/ loop.state = "Idle" /\ Receive(SubName, OrderedCfg)
  \/ Cancel
  \/ \E S \in SUBSET MsgIds : Pull(S)
  \/ \E i \in MsgIds : Dispatch(i)
  \/ \E i \in MsgIds, o \in Outcomes : HandlerReturn(i, o)
  \/ ObserveCancel
  \/ ReceiveReturn

OrderSpec == ExternalInit /\ [][OrderNext]_vars

\* One client: calls on valid handles and on the client, before and after
\* Close, with the broker calls succeeding or failing.  Receive is called
\* after Close only; the loop of a call made before it is followed in
\* CloseLoopSpec.
ClientNext ==
  \/ \E again \in {"nil", "connection closing"} : Close(again)
  \/ \E t \in TopicIDs, ok \in BOOLEAN :
       Len(msgs) < MaxMsgs /\ Publish(t, TestPayload, ok)
  \/ \E t \in TopicIDs, fault \in {"none", "exists", "create"} :
       CreateSubscription(SubName, t, NilCfg, fault)
  \/ conn.closed /\ Receive(SubName, NilCfg)
  \/ \E t \in TopicIDs, ok \in BOOLEAN : TopicExists(t, ok)
  \/ \E ok \in BOOLEAN : SubExists(SubName, ok)
  \/ \E ok \in BOOLEAN : Delete(SubName, ok)
  \/ \E failAt \in {NeverFails, 0} : ListSubscriptions(failAt)
  \/ \E failAt \in {NeverFails, 0} : ListTopics(failAt)

ClientSpec == Init /\ [][ClientNext]_vars

\* Payloads of five and of two bytes.
FlowPayloads == {TestPayload, [data |-> "hi", attrs |-> NoAttrs]}

\* *ReceiveConfig values that set one of the two limits: one message, or
\* five bytes.
FlowCfgs ==
  { [kind |-> "cfg", Concurrency |-> 2, MaxOutstandingMessages |-> 1,
     MaxOutstandingBytes |-> 0, EnableMessageOrdering |-> FALSE],
    [kind |-> "cfg", Concurrency |-> 2, MaxOutstandingMessages |-> 0,
     MaxOutstandingBytes |-> 5, EnableMessageOrdering |-> FALSE] }

\* One Receive call with a limit on messages or on bytes, on the external
\* subscription, with messages of both sizes, handlers that return nil or an
\* error, and no broker failure; scheduling as in Fairness.
FlowNext ==
  \/ \E p \in FlowPayloads : Len(msgs) < MaxMsgs /\ Publish("orders", p, TRUE)
  \/ \E cfg \in FlowCfgs : loop = IdleLoop("none") /\ Receive(SubName, cfg)
  \/ Cancel
  \/ \E S \in SUBSET MsgIds : Pull(S)
  \/ \E i \in MsgIds : Dispatch(i)
  \/ \E i \in MsgIds, o \in {"ok", "err"} : HandlerReturn(i, o)
  \/ ObserveCancel
  \/ ReceiveReturn

FlowSpec == ExternalInit /\ [][FlowNext]_vars /\ Fairness

\* A *ReceiveConfig with Concurrency > 1 and the default limits.
ConcurrentCfg ==
  [kind |-> "cfg", Concurrency |-> 2, MaxOutstandingMessages |-> 0,
   MaxOutstandingBytes |-> 0, EnableMessageOrdering |-> FALSE]

\* Receive with Concurrency > 1 on the external subscription or on one the
\* wrapper created, with handlers that return nil, return an error or panic.
IsolationNext ==
  \/ \E t \in TopicIDs : Len(msgs) < MaxMsgs /\ Publish(t, TestPayload, TRUE)
  \/ sub = NoSub /\ CreateSubscription(SubName, "orders", NilCfg, "none")
  \/ loop.state = "Idle" /\ Receive(SubName, ConcurrentCfg)
  \/ Cancel
  \/ \E S \in SUBSET MsgIds : Pull(S)
  \/ \E i \in MsgIds : Dispatch(i)
  \/ \E i \in MsgIds, o \in Outcomes : HandlerReturn(i, o)
  \/ ObserveCancel
  \/ PullFails
  \/ ReceiveReturn

IsolationSpec == Init /\ [][IsolationNext]_vars

\* Close while a Receive call of the client is active, on the subscription
\* that exists.  The broker itself never fails here; the loop's pulls, acks
\* and nacks go through the client's connection.
CloseLoopNext ==
  \/ \E t \in TopicIDs : Len(msgs) < MaxMsgs /\ Publish(t, TestPayload, TRUE)
  \/ \E cfg \in ReceiveConfigs :
       loop.state = "Idle" /\ ~conn.closed /\ Receive(SubName, cfg)
  \/ Close("nil")
  \/ Cancel
  \/ \E S \in SUBSET MsgIds : Pull(S)
  \/ \E i \in MsgIds : Dispatch(i)
  \/ \E i \in MsgIds, o \in Outcomes : HandlerReturn(i, o)
  \/ ObserveCancel
  \/ PullOnClosed
  \/ ReceiveReturn

CloseLoopSpec == ExternalInit /\ [][CloseLoopNext]_vars

\* ListTopics and ListSubscriptions with the pagination failing at once,
\* after some identifiers, or not at all, while subscriptions are created
\* and deleted and the client is closed.
ListNext ==
  \/ \E failAt \in NeverFails..Len(BrokerSubs) : ListSubscriptions(failAt)
  \/ \E failAt \in NeverFails..Len(BrokerTopics) : ListTopics(failAt)
  \/ \E t \in TopicIDs, cfg \in SubscriptionConfigs :
       CreateSubscription(SubName, t, cfg, "none")
  \/ Delete(SubName, TRUE)
  \/ Close("nil")

ListSpec == Init /\ [][ListNext]_vars

\* testPubSubFunctions (the example workflow).  Each call is made when the
\* call before it returned what lets the function go on; the function
\* returns, and its deferred client.Close() runs, when a call returned an
\* error or Receive returned.

\* The configurations the workflow passes.
WorkflowSubCfg ==
  [kind |-> "cfg", AckDeadline |-> 30, MinBackoff |-> 10, MaxBackoff |-> 600]
WorkflowCfg ==
  [kind |-> "cfg", Concurrency |-> 5, MaxOutstandingMessages |-> 100,
   MaxOutstandingBytes |-> 0, EnableMessageOrdering |-> FALSE]

\* topic.Exists returned (true, nil): the function goes on to create.
TopicConfirmed(r) == r.op = "Topic.Exists" /\ r.err = "nil" /\ r.val

\* Mutant: the error of CreateSubscription is not looked at.
SubscriptionCreatedIgnoresErr(r) == r.op = "CreateSubscription"

\* CreateSubscription returned a handle: the function goes on to publish.
SubscriptionCreated(r) == r.op = "CreateSubscription" /\ r.err = "nil"

\* Publish returned a message ID: the function goes on to Receive.
Published(r) == r.op = "Publish" /\ r.err = "nil"

\* A call returned an error, or topic.Exists returned false.
StepFailed(r) ==
  \/ r.op \in {"Topic.Exists", "CreateSubscription", "Publish"} /\ r.err # "nil"
  \/ r.op = "Topic.Exists" /\ ~r.val

\* The function returns and the deferred client.Close() runs.
WorkflowReturn ==
  /\ ~conn.closed
  /\ StepFailed(ret) \/ (loop.state = "Idle" /\ loop.err # "none")
  /\ Close("nil")

\* The workflow from its first call on, with the broker calls succeeding or
\* failing, the caller's context being cancelled, the subscription existing
\* beforehand or not, and other publishers sending to the topic.
WorkflowNext ==
  \/ \E k \in OrderingKeys : Len(msgs) < MaxMsgs /\ ExternalPublish(k)
  \/ \E ok \in BOOLEAN : ret.op = "none" /\ TopicExists("orders", ok)
  \/ \E fault \in {"none", "exists", "create"} :
       TopicConfirmed(ret) /\ CreateSubscription(SubName, "orders", WorkflowSubCfg, fault)
  \/ \E ok \in BOOLEAN :
       SubscriptionCreated(ret) /\ Publish("orders", [data |-> "hello", attrs |-> KeyValue], ok)
  \/ Published(ret) /\ loop = IdleLoop("none") /\ Receive(SubName, WorkflowCfg)
  \/ Cancel
  \/ \E S \in SUBSET MsgIds : Pull(S)
  \/ \E i \in MsgIds : Dispatch(i)
  \/ ObserveCancel
  \/ PullFails
  \/ ReceiveReturn
  \/ WorkflowReturn

WorkflowSpec == Init /\ [][WorkflowNext]_vars

\* Calls on the handles Topic(id) and Subscription(id), for the empty and for
\* a valid identifier, with the broker calls succeeding or failing.
HandleNext ==
  \/ \E t \in {"", "orders"}, p \in Payloads, ok \in BOOLEAN :
       Len(msgs) < MaxMsgs /\ Publish(t, p, ok)
  \/ \E id \in {"", SubName}, cfg \in ReceiveConfigs : Receive(id, cfg)
  \/ \E t \in {"", "orders"}, ok \in BOOLEAN : TopicExists(t, ok)
  \/ \E id \in {"", SubName}, ok \in BOOLEAN : SubExists(id, ok)
  \/ \E id \in {"", SubName}, ok \in BOOLEAN : Delete(id, ok)
  \/ sub = NoSub /\ CreateSubscription(SubName, "orders", NilCfg, "none")

HandleSpec == Init /\ [][HandleNext]_vars

\* The callers of Creators each run CreateSubscription(SubName, ...) once,
\* with valid arguments of their own, in every interleaving of their steps
\* and with the broker calls succeeding or failing.
RaceNext ==
  \/ \E c \in Creators, t \in TopicIDs, cfg \in SubscriptionConfigs,
        fault \in {"none", "exists"} : CreateCheck(c, t, cfg, fault)
  \/ \E c \in Creators, fault \in {"none", "create"} : CreateCreate(c, fault)

RaceSpec == Init /\ [][RaceNext]_vars

\* Every call of Publish and CreateSubscription, valid or not, with the broker
\* calls succeeding or failing; no Receive call.
CallTopics == TopicIDs \cup {"nil", ""}

CreateNext ==
  \/ \E t \in TopicIDs \cup {""}, p \in Payloads, ok \in BOOLEAN :
       Len(msgs) < MaxMsgs /\ Publish(t, p, ok)
  \/ \E id \in {"", SubName}, t \in CallTopics, cfg \in SubscriptionConfigs,
        fault \in {"none", "exists", "create"} :
       CreateSubscription(id, t, cfg, fault)

CreateSpec == Init /\ [][CreateNext]_vars

\* The redelivery scenario: ScenarioMsgs messages are published to "orders",
\* Receive is called once with Concurrency = 1, and the handler returns an
\* error when it is given the first delivery of the 2nd message and nil
\* otherwise.
ScenarioCfg ==
  [kind |-> "cfg", Concurrency |-> 1, MaxOutstandingMessages |-> 0,
   MaxOutstandingBytes |-> 0, EnableMessageOrdering |-> FALSE]

ScenarioOutcome(i) ==
  IF i = 2 /\ msgs[i].arg # NoMessage /\ msgs[i].arg.DeliveryAttempt = 1
  THEN "err" ELSE "ok"

ScenarioSubscribe ==
  sub = NoSub /\ CreateSubscription(SubName, "orders", NilCfg, "none")

ScenarioPublish ==
  sub # NoSub /\ Len(msgs) < ScenarioMsgs /\ Publish("orders", TestPayload, TRUE)

ScenarioReceive ==
  sub # NoSub /\ loop.state = "Idle" /\ Receive(SubName, ScenarioCfg)

ScenarioNext ==
  \/ ScenarioSubscribe
  \/ ScenarioPublish
  \/ ScenarioReceive
  \/ \E S \in SUBSET MsgIds : Pull(S)
  \/ \E i \in MsgIds : Dispatch(i)
  \/ \E i \in MsgIds : HandlerReturn(i, ScenarioOutcome(i))

ScenarioFairness ==
  /\ WF_vars(ScenarioSubscribe)
  /\ WF_vars(ScenarioPublish)
  /\ WF_vars(ScenarioReceive)
  /\ \A i \in 1..ScenarioMsgs :
       /\ SF_vars(\E S \in SUBSET MsgIds : i \in S /\ Pull(S))
       /\ WF_vars(Dispatch(i))
       /\ WF_vars(HandlerReturn(i, ScenarioOutcome(i)))

ScenarioSpec == Init /\ [][ScenarioNext]_vars /\ ScenarioFairness

(* -------------------------------- claims ------------------------------- *)

InFlight == Held("pulled") \cup Held("handler")

Nacked(m) == m.st \in {"pending", "dead"}

\* The step resolves the handler invocation that was running on message i.
Returns(i) == msgs[i].st = "handler" /\ msgs'[i] # msgs[i]

\* C1: while a Receive call with cfg.Concurrency = N > 0 is active, at most N
\* handler invocations have started and not yet returned.
C1_ConcurrencyBound ==
  (loop.state # "Idle" /\ loop.cfg.Concurrency > 0)
    => Cardinality(Held("handler")) <= loop.cfg.Concurrency

\* C2: while a Receive call with cfg.MaxOutstandingMessages = M > 0 is active,
\* at most M messages are pulled and unresolved, and no message is pulled in a
\* step that starts with M of them.
C2_StepBound ==
  (loop.state # "Idle" /\ loop.cfg.MaxOutstandingMessages > 0
     /\ Cardinality(InFlight) >= loop.cfg.MaxOutstandingMessages)
    => \A i \in MsgIds : msgs'[i].st = "pulled" => msgs[i].st = "pulled"

C2_StateBound ==
  (loop.state # "Idle" /\ loop.cfg.MaxOutstandingMessages > 0)
    => Cardinality(InFlight) <= loop.cfg.MaxOutstandingMessages

C2_OutstandingBound == []C2_StateBound /\ [][C2_StepBound]_vars

\* A call with MaxOutstandingMessages = 1 holds one message in the handler
\* while another waits at the broker.
C2_Witness ==
  /\ loop.state = "Running"
  /\ loop.cfg.MaxOutstandingMessages = 1
  /\ Held("handler") # {}
  /\ Held("pending") # {}

\* C3: a handler invocation that returns nil gets its message acked, one that
\* returns an error gets it nacked, and an acked message is not delivered again.
C3_Step ==
  \A i \in MsgIds :
    /\ (Returns(i) /\ msgs'[i].out = "ok")
         => (msgs'[i].st = "acked" /\ msgs'[i].acks = msgs[i].acks + 1)
    /\ (Returns(i) /\ msgs'[i].out = "err")
         => (Nacked(msgs'[i]) /\ msgs'[i].acks = msgs[i].acks)
    /\ msgs[i].st = "acked" => msgs'[i] = msgs[i]

C3_AckOnSuccessNackOnError == [][C3_Step]_vars

\* One message was acked after the handler returned nil; another was nacked
\* after an error and is in the handler again.
C3_Witness ==
  \E i, j \in MsgIds :
    /\ msgs[i].st = "acked" /\ msgs[i].out = "ok"
    /\ msgs[j].st = "handler" /\ msgs[j].arg.DeliveryAttempt = 2

\* C4: a handler invocation that panics gets its message nacked and leaves the
\* Receive call as it was; no panic ends the process or the call.
C4_Step ==
  \A i \in MsgIds :
    (Returns(i) /\ msgs'[i].out = "panic")
      => (Nacked(msgs'[i]) /\ msgs'[i].acks = msgs[i].acks /\ loop' = loop)

C4_PanicContained == [](loop.state # "Crashed") /\ [][C4_Step]_vars

\* With one message in flight at a time: a message was nacked after a panic,
\* the call is still running and the handler is running on a later delivery.
C4_Witness ==
  \E i, j \in MsgIds :
    /\ loop.state = "Running" /\ loop.maxCount = 1
    /\ msgs[i].st = "pending" /\ msgs[i].out = "panic"
    /\ msgs[j].st = "handler"

\* The handler is running on message i and was given the published payload.
Observed(i) ==
  /\ i \in Held("handler")
  /\ msgs[i].arg.Data = msgs[i].data
  /\ msgs[i].arg.Attributes = msgs[i].attrs

\* Message i was published to the subscription of the given origin and waits
\* at the broker, and a Receive call runs on the subscription.
Receiving(i, origin) ==
  /\ sub # NoSub /\ sub.origin = origin
  /\ i \in Held("pending")
  /\ loop.state = "Running"

\* C5: every message published to a topic whose subscription was created by
\* CreateSubscription is, while a Receive call runs on the subscription,
\* eventually given to the handler with the published Data and Attributes.
C5_AtLeastOnce ==
  \A i \in 1..MaxMsgs :
    Receiving(i, "wrapper") ~> (loop.state # "Running" \/ Observed(i))

\* The same delivery property on the subscription that has a dead-letter
\* policy, where the broker supplies the delivery attempt.
AtLeastOnceWithDeadLetterPolicy ==
  \A i \in 1..MaxMsgs :
    Receiving(i, "external") ~> (loop.state # "Running" \/ Observed(i))

\* C6: a Receive call made on the handle while a call is active returns the
\* "already in progress" error and leaves the active call (its limits, its
\* state) and the messages in flight as they were.
C6_Step ==
  (loop.state # "Idle" /\ \E cfg \in ReceiveConfigs : Receive(SubName, cfg))
    => /\ ret' = [op |-> "Receive", err |-> "receive in progress"]
       /\ loop' = loop
       /\ msgs' = msgs

ResolvedByOutcome(i) ==
  /\ msgs'[i].out = "ok" => msgs'[i].st = "acked"
  /\ msgs'[i].out \in {"err", "panic"} => Nacked(msgs'[i])

\* C7: once the loop has seen the cancellation no message is pulled, the
\* running handler invocations are resolved by their own outcome, and the call
\* returns only when no message is in flight.
C7_Step ==
  loop.state = "Stopping"
    => /\ \A i \in MsgIds : msgs'[i].st = "pulled" => msgs[i].st = "pulled"
       /\ \A i \in MsgIds : Returns(i) => ResolvedByOutcome(i)
       /\ loop'.state = "Idle" => InFlight = {}

C7_CancelDrains ==
  [](loop.state = "Stopping" => Held("pulled") = {}) /\ [][C7_Step]_vars

\* The cancellation was seen while a handler runs and a message waits.
C7_Witness ==
  /\ loop.state = "Stopping"
  /\ Held("handler") # {}
  /\ Held("pending") # {}

\* C8: a Receive call that ran a loop returns nil exactly when the loop ended
\* by the cancellation of its context.
C8_Step ==
  (loop.state # "Idle" /\ loop'.state = "Idle")
    => (loop'.err = "nil" <=> loop.state = "Stopping")

CreateCalled(t, cfg, fault) == CreateSubscription(SubName, t, cfg, fault)

\* C9: a CreateSubscription call on the identifier of an existing
\* subscription changes nothing at the broker, whatever its other arguments
\* and whether or not the existence check fails; it returns
\* ErrSubscriptionExists when its topic handle is valid and the existence
\* check answers.
C9_Step ==
  \A t \in CallTopics, cfg \in SubscriptionConfigs, fault \in {"none", "exists", "create"} :
    (sub # NoSub /\ CreateCalled(t, cfg, fault))
      => /\ (t \in TopicIDs /\ fault # "exists") => ret'.err = "ErrSubscriptionExists"
         /\ sub' = sub
         /\ msgs' = msgs

C9_ExistsNoMutation == [][C9_Step]_vars

\* A second creation was refused; the subscription the wrapper created before
\* is still bound to its topic and still holds its message.
C9_Witness ==
  /\ ret = [op |-> "CreateSubscription", err |-> "ErrSubscriptionExists"]
  /\ sub # NoSub /\ sub.origin = "wrapper" /\ sub.topic = "audit"
  /\ msgs # <<>>

\* The end of the redelivery scenario: every message acked exactly once, the
\* 2nd one on a delivery attempt of at least 2.
ScenarioDone ==
  /\ Len(msgs) = ScenarioMsgs
  /\ \A i \in MsgIds : msgs[i].st = "acked" /\ msgs[i].acks = 1
  /\ msgs[2].attempt >= 2

\* C10: the redelivery scenario eventually reaches its end.
C10_Scenario == <>ScenarioDone

\* The scenario on the subscription that has a dead-letter policy.
ScenarioWithDeadLetterPolicy == (sub = ExternalSub) => <>ScenarioDone

\* C11: while a Receive call with EnableMessageOrdering and Concurrency > 1 is
\* active, no message is in the handler together with an earlier message of
\* the same ordering key.
C11_KeyOrder ==
  (loop.state # "Idle" /\ loop.cfg.EnableMessageOrdering /\ loop.cfg.Concurrency > 1)
    => \A i, j \in Held("handler") :
         (i < j /\ msgs[i].key # "") => msgs[i].key # msgs[j].key

\* The cause of the error a call returned, "none" if it names none.
Cause(r) == IF "cause" \in DOMAIN r THEN r.cause ELSE "none"

\* C12: a Close call on a client that was closed before returns nil and does
\* not reach the connection again.
C12_Step ==
  \A again \in {"nil", "connection closing"} :
    (conn.closed /\ Close(again)) => (ret'.err = "nil" /\ conn' = conn)

C12_CloseIdempotent == [][C12_Step]_vars

\* C13: after Close every call on a valid handle or on the client returns an
\* error caused by the closed connection, and changes neither the broker's
\* subscription and messages nor the Receive call of the handle.
C13_Step ==
  (conn.closed /\ conn' = conn)
    => /\ ret'.err # "nil"
       /\ Cause(ret') = "closed"
       /\ sub' = sub /\ msgs' = msgs /\ loop' = loop

NothingDone == UNCHANGED <<sub, msgs, settings, loop, conn>>

\* C14: on the handles Topic("") and Subscription(""), whatever the broker
\* would answer, Publish, Receive and Delete return the invalid-handle error
\* and Exists returns (false, nil); nothing reaches the broker and no Receive
\* call starts.
C14_Step ==
  /\ \A p \in Payloads, ok \in BOOLEAN :
       Publish("", p, ok)
         => (ret' = [op |-> "Publish", err |-> "invalid topic"] /\ NothingDone)
  /\ \A cfg \in ReceiveConfigs :
       Receive("", cfg)
         => (ret' = [op |-> "Receive", err |-> "invalid subscription"] /\ NothingDone)
  /\ \A ok \in BOOLEAN :
       Delete("", ok)
         => (ret' = [op |-> "Delete", err |-> "invalid subscription"] /\ NothingDone)
  /\ \A ok \in BOOLEAN :
       TopicExists("", ok)
         => (ret'.val = FALSE /\ ret'.err = "nil" /\ NothingDone)
  /\ \A ok \in BOOLEAN :
       SubExists("", ok)
         => (ret'.val = FALSE /\ ret'.err = "nil" /\ NothingDone)

C14_InvalidHandles == [][C14_Step]_vars

\* Receive on Subscription("") was refused while the subscription holds a
\* pending message and no Receive call runs.
C14_Witness ==
  /\ ret = [op |-> "Receive", err |-> "invalid subscription"]
  /\ sub # NoSub
  /\ Held("pending") # {}
  /\ loop.state = "Idle"

\* The ack deadline in force at the broker, which uses its default for a
\* subscription created with none.
EffectiveAckDeadline(sb) ==
  IF sb.ackDeadline = 0 THEN DefaultAckDeadline ELSE sb.ackDeadline

\* The value of a SubscriptionConfig field, or its documented default.
OrDefault(cfg, field, default) ==
  IF cfg # NilCfg /\ cfg[field] > 0 THEN cfg[field] ELSE default

\* C15: the subscription CreateSubscription creates has the ack deadline and
\* the minimum and maximum backoff of cfg, each replaced by its default (10 s,
\* 10 s, 600 s) where cfg is nil or leaves the field unset.
C15_Step ==
  \A t \in TopicIDs, cfg \in SubscriptionConfigs :
    (sub = NoSub /\ CreateCalled(t, cfg, "none") /\ sub' # NoSub)
      => /\ EffectiveAckDeadline(sub') = OrDefault(cfg, "AckDeadline", DefaultAckDeadline)
         /\ sub'.retry = << OrDefault(cfg, "MinBackoff", DefaultMinBackoff),
                            OrDefault(cfg, "MaxBackoff", DefaultMaxBackoff) >>

C15_ConfigDefaults == [][C15_Step]_vars

\* The argument errors of CreateSubscription.
ArgumentErrors == {"subscription ID cannot be empty", "topic cannot be nil"}

\* C17: CreateSubscription with an empty subID, no topic or the invalid topic
\* handle returns an argument error whatever the broker would answer, and
\* the subscription and its messages are as before.
C17_Step ==
  \A id \in {"", SubName}, t \in CallTopics, cfg \in SubscriptionConfigs,
     fault \in {"none", "exists", "create"} :
    ((id = "" \/ t \in {"nil", ""}) /\ CreateSubscription(id, t, cfg, fault))
      => /\ ret'.err \in ArgumentErrors
         /\ Cause(ret') = "none"
         /\ sub' = sub /\ msgs' = msgs

C17_ArgumentErrors == [][C17_Step]_vars

\* A call without a valid topic was refused and no subscription exists.
C17_Witness ==
  /\ ret = [op |-> "CreateSubscription", err |-> "topic cannot be nil"]
  /\ sub = NoSub

\* C16: a Receive call whose cfg is nil or leaves a field zero runs with the
\* default of that field: at most one handler invocation at a time for
\* Concurrency, at most 1000 outstanding messages for MaxOutstandingMessages,
\* and no ordering.
C16_ReceiveDefaults ==
  loop.state # "Idle"
    => /\ loop.cfg.Concurrency = 0 => Cardinality(Held("handler")) <= 1
       /\ loop.cfg.MaxOutstandingMessages = 0
            => Cardinality(InFlight) <= DefaultMaxOutstandingMessages
       /\ loop.cfg = OrZero(NilCfg) => ~loop.cfg.EnableMessageOrdering

\* The callers whose CreateSubscription returned a handle.
Winners == {c \in Creators : creators[c].pc = "done" /\ creators[c].err = "nil"}

\* C18: of the callers that run CreateSubscription for one subID side by
\* side at most one returns a handle, every other one that has returned has
\* an error, and the subscription that exists is the one the caller with the
\* handle configured.
C18_OneCreatorWins ==
  /\ Cardinality(Winners) <= 1
  /\ \A c \in Winners :
       sub = SubConfig(creators[c].topic, creators[c].cfg)
  /\ \A c \in Creators \ Winners :
       creators[c].pc = "done"
         => creators[c].err \in {"failed to check subscription existence",
                                 "ErrSubscriptionExists",
                                 "failed to create subscription"}

\* Both callers found no subscription; "a" created one on "orders", and the
\* broker refused the creation of "b", which asked for "audit".
C18_Witness ==
  /\ creators["a"].pc = "done" /\ creators["a"].err = "nil"
  /\ creators["a"].topic = "orders"
  /\ creators["b"].pc = "done" /\ creators["b"].cause = "already exists"
  /\ creators["b"].topic = "audit"
  /\ sub.topic = "orders"

\* C19: with no broker failure, also after Close, the loop stops pulling only
\* when its context was cancelled, and every handler invocation that returns
\* has its message resolved by its own outcome.
C19_Step ==
  /\ (loop.state = "Running" /\ loop'.state # "Running") => loop.cancelled
  /\ \A i \in MsgIds : Returns(i) => ResolvedByOutcome(i)

C19_CloseKeepsLoop == [][C19_Step]_vars

\* C20: with Concurrency > 1, a handler invocation that panics or returns an
\* error has its own message nacked and changes nothing else: every other
\* message and the loop stay as they are, every returning invocation is
\* resolved by its own outcome, the process does not crash, and Receive
\* returns nil or the error of a failed pull.
C20_Step ==
  /\ \A i \in MsgIds :
       (Returns(i) /\ msgs'[i].out \in {"err", "panic"})
         => /\ Nacked(msgs'[i])
            /\ \A j \in MsgIds \ {i} : msgs'[j] = msgs[j]
            /\ loop' = loop
  /\ \A i \in MsgIds : Returns(i) => ResolvedByOutcome(i)
  /\ (loop.state \in {"Stopping", "Failing"} /\ loop'.state = "Idle")
       => loop'.err = IF loop.state = "Stopping" THEN "nil" ELSE "receive failed"

C20_FailureIsolation == [](loop.state # "Crashed") /\ [][C20_Step]_vars

\* Under Concurrency 2 one invocation failed and was nacked while the
\* invocation on the other message, delivered once like it, still runs.
C20_Witness ==
  /\ loop.state = "Running" /\ loop.cfg.Concurrency = 2
  /\ \E i, j \in MsgIds :
       /\ msgs[i].out \in {"err", "panic"} /\ Nacked(msgs[i])
       /\ msgs[i].attempt = 1
       /\ msgs[j].st = "handler" /\ msgs[j].attempt = 1

\* A limit of the active call's cfg is reached by the messages in flight.
Suspended ==
  /\ loop.state = "Running"
  /\ \/ /\ loop.cfg.MaxOutstandingMessages > 0
        /\ Cardinality(InFlight) >= loop.cfg.MaxOutstandingMessages
     \/ /\ loop.cfg.MaxOutstandingBytes > 0
        /\ Bytes(InFlight) >= loop.cfg.MaxOutstandingBytes

\* C21: while the messages in flight have reached cfg.MaxOutstandingMessages
\* or their bytes cfg.MaxOutstandingBytes, no message is pulled; a message
\* that waits at the broker meanwhile is pulled later, unless the loop stops.
C21_Step ==
  Suspended => \A i \in MsgIds : msgs'[i].st = "pulled" => msgs[i].st = "pulled"

C21_Resumes ==
  \A i \in 1..MaxMsgs :
    (Suspended /\ i \in MsgIds /\ msgs[i].st = "pending")
      ~> (loop.state # "Running" \/ i \notin MsgIds \/ msgs[i].st # "pending")

C22_ListResults ==
  ret.op \in {"ListTopics", "ListSubscriptions"}
    => /\ ret.err = "nil"
            => ret.val = IF ret.op = "ListTopics" THEN BrokerTopics ELSE BrokerSubs
       /\ ret.err # "nil"
            => /\ ret.err \in {"failed to list topics",
                               "failed to list subscriptions"}
               /\ ret.val = ret.seen

\* The step hands message i to the handler.
Invokes(i) == msgs[i].st = "pulled" /\ msgs'[i].st = "handler"

\* C23: the Message the handler is called with has the identifier and the
\* delivery attempt of the delivery, which is at least 1; the delivery that
\* follows a handler invocation that was nacked has the same identifier and a
\* greater delivery attempt.
C23_Step ==
  \A i \in MsgIds :
    /\ Invokes(i)
         => /\ msgs'[i].arg.DeliveryAttempt >= 1
            /\ msgs'[i].arg.DeliveryAttempt = msgs[i].attempt
            /\ msgs'[i].arg.ID = msgs[i].id
    /\ (msgs[i].out \in {"err", "panic"} /\ msgs'[i].st = "pulled")
         => /\ msgs'[i].attempt > msgs[i].attempt
            /\ msgs'[i].id = msgs[i].id

C23_DeliveryAttempts == [][C23_Step]_vars

\* The handler runs on the second delivery of the second message, after its
\* first invocation was nacked.
C23_Witness ==
  \E i \in MsgIds :
    /\ msgs[i].st = "handler"
    /\ msgs[i].arg.ID = 2
    /\ msgs[i].arg.DeliveryAttempt = 2

\* The step ends the callback that ran on the delivery of message i: the
\* handler returned or panicked, or building the Message panicked.
CallbackEnds(i) ==
  \/ Returns(i)
  \/ /\ msgs[i].st = "pulled" /\ msgs'[i].st \notin {"pulled", "handler"}
     /\ loop'.state = loop.state

\* C24: the callback calls exactly one of m.Ack and m.Nack, once, for the
\* delivery it ran on, however the run went, and none before it ends; the
\* broker has the message acked, or nacked (pending again or dead), then.
C24_Step ==
  \A i \in MsgIds :
    CallbackEnds(i)
      => /\ msgs[i].calls = 0
         /\ msgs'[i].calls = 1
         /\ msgs'[i].st = "acked" \/ Nacked(msgs'[i])
         /\ msgs'[i].acks <= 1

C24_ResolvedOnce ==
  /\ [](\A i \in MsgIds : /\ msgs[i].calls <= 1
                          /\ msgs[i].st \in {"pulled", "handler"}
                               => msgs[i].calls = 0)
  /\ [][C24_Step]_vars

\* On a subscription without dead-letter policy building the Message
\* panicked for both messages, and each was nacked once by the deferred
\* function without the handler having run.
C24_Witness ==
  /\ sub # NoSub /\ ~sub.deadLetter
  /\ Len(msgs) = 2
  /\ \A i \in MsgIds :
       msgs[i].calls = 1 /\ msgs[i].st = "pending" /\ msgs[i].out = "none"

\* C25: the callback calls m.Ack or m.Nack for a delivery only after the
\* handler was invoked on it, on every subscription.
C25_Step ==
  \A i \in MsgIds :
    msgs'[i].calls > msgs[i].calls => msgs[i].st = "handler"

C25_HandlerBeforeResolution == [][C25_Step]_vars

\* C26: the limits an active Receive call runs with are those of the cfg it
\* was called with, and the defaults for the fields that cfg leaves unset,
\* whatever earlier calls on the handle were given.
C26_SettingsFromCfg ==
  loop.state # "Idle"
    => /\ loop.maxCount = IF loop.cfg.MaxOutstandingMessages > 0
                          THEN loop.cfg.MaxOutstandingMessages
                          ELSE DefaultMaxOutstandingMessages
       /\ loop.maxBytes = IF loop.cfg.MaxOutstandingBytes > 0
                          THEN loop.cfg.MaxOutstandingBytes
                          ELSE DefaultMaxOutstandingBytes

\* The step is the return of the call op of the workflow.
Called(op) == ret' # ret /\ ret'.op = op

\* C27: the workflow creates the subscription only after topic.Exists
\* returned true, publishes only after CreateSubscription returned a handle,
\* starts Receive only after Publish succeeded; after a failed call the only
\* thing it does is close the client, and after the close it does nothing.
C27_Step ==
  /\ Called("CreateSubscription") => TopicConfirmed(ret)
  /\ Called("Publish")
       => /\ ret.op = "CreateSubscription" /\ ret.err = "nil"
          /\ sub # NoSub /\ sub.origin = "wrapper"
  /\ (loop.state = "Idle" /\ loop'.state = "Running")
       => (ret.op = "Publish" /\ ret.err = "nil")
  /\ StepFailed(ret)
       => /\ ret' = ret \/ Called("Close")
          /\ sub' = sub /\ loop' = loop
  /\ conn.closed => (ret' = ret /\ loop' = loop /\ sub' = sub)

C27_WorkflowOrder == [][C27_Step]_vars

\* The workflow ran through: the subscription was created, the message
\* published, Receive returned nil after the cancellation, and the client
\* was closed.
C27_Witness ==
  /\ ret.op = "Close" /\ conn.closed
  /\ sub # NoSub /\ sub.origin = "wrapper"
  /\ \E i \in MsgIds : msgs[i].data = "hello" /\ msgs[i].key = ""
  /\ loop = IdleLoop("nil")

(* ------------------------------- C28 ----------------------------------- *)

\* The run that a step of the script makes, if it is one with this action.
Ran(action) ==
  /\ lab'.runs = lab.runs + 1
  /\ lab'.last.args.action = action

\* C28: a cleanup run changes nothing but the domains <prefix>1 and
\* <prefix>2, their disk and seed files and the two networks named after
\* the third octets of --netA and --netB, all of which are gone after it;
\* the NAT networks 'default' and 'nat0' are as they were.
C28_Step ==
  Ran("cleanup") =>
    LET a == lab'.last.args
        own == {a.prefix \o "1", a.prefix \o "2"}
        ownNets == {"net" \o ToString(a.netA.oct3), "net" \o ToString(a.netB.oct3)}
    IN /\ \A v \in VMNames \ own :
            /\ lab'.doms[v] = lab.doms[v]
            /\ lab'.disks[v] = lab.disks[v]
            /\ lab'.seeds[v] = lab.seeds[v]
       /\ \A n \in NetNames \ ownNets : lab'.nets[n] = lab.nets[n]
       /\ lab'.nets["default"] = lab.nets["default"]
       /\ lab'.nets["nat0"] = lab.nets["nat0"]
       /\ lab'.last.exit = 0 =>
            /\ \A v \in own \cap VMNames :
                 lab'.doms[v] = 0 /\ lab'.disks[v] = 0 /\ lab'.seeds[v] = 0
            /\ \A n \in ownNets : lab'.nets[n] = "absent"

C28_CleanupScope == [][C28_Step]_vars

\* A cleanup has removed one lab while the NAT network the script made and
\* the other lab's domains are still there.
C28_Witness ==
  /\ lab.last.args.action = "cleanup" /\ lab.last.exit = 0
  /\ lab.last.args.prefix = "mi-test-vm-"
  /\ lab.nets["nat0"] = "active"
  /\ lab.nets["net58"] = "absent"
  /\ lab.doms["mi-test-vm-1"] = 0 /\ lab.disks["mi-test-vm-1"] = 0
  /\ lab.doms["yo-test-vm-1"] = 2 /\ lab.disks["yo-test-vm-2"] = 2
  /\ lab.nets["net60"] = "active"
  /\ lab.runs = 3

(* ------------------------------- C29 ----------------------------------- *)

DefinedDoms(l) == {v \in VMNames : l.doms[v] # 0}
DefinedNets(l) == {n \in NetNames : l.nets[n] # "absent"}

\* C29: a create run without --force leaves an existing domain and its
\* disk image as they were; with --force an existing domain, its disk and
\* its seed are made anew by that run; and a create with --force right
\* after the same create with --force leaves the same domains and networks.
C29_Step ==
  (Ran("create") /\ lab'.last.exit = 0) =>
    LET a == lab'.last.args
        own == {a.prefix \o "1", a.prefix \o "2"}
    IN /\ \A v \in own :
            lab.doms[v] # 0 =>
              IF a.force
              THEN /\ lab'.doms[v] = lab'.runs
                   /\ lab'.disks[v] = lab'.runs
                   /\ lab'.seeds[v] = lab'.runs
              ELSE /\ lab'.doms[v] = lab.doms[v]
                   /\ lab'.disks[v] = lab.disks[v]
       /\ (a.force /\ lab.last = [args |-> a, exit |-> 0]) =>
            /\ DefinedDoms(lab') = DefinedDoms(lab)
            /\ DefinedNets(lab') = DefinedNets(lab)
            /\ own \subseteq DefinedDoms(lab')

C29_CreateForce == [][C29_Step]_vars

\* A create without --force has met the domains of an earlier create and
\* left them, and a create with --force has then made them anew.
C29_Witness ==
  /\ lab.runs = 3
  /\ lab.last.args.action = "create" /\ lab.last.exit = 0
  /\ lab.last.args.force
  /\ lab.last.args.prefix = "mi-test-vm-"
  /\ lab.doms["mi-test-vm-1"] = 3 /\ lab.disks["mi-test-vm-1"] = 3
  /\ lab.doms["mi-test-vm-2"] = 3

====
